---- MODULE Spec2Model ----
(***************************************************************************)
(* A model of the CUDA decoding search of Generators/Search_Cuda.cpp: the  *)
(* host decode loop, the ordered execution stream it enqueues kernels on,  *)
(* and the device executing that stream asynchronously.                    *)
(*                                                                         *)
(* Host calls are atomic actions that enqueue operations on `stream`; the  *)
(* device action DeviceExec pops and executes the head of the stream.  The *)
(* host runs ahead of the device unless it synchronises.                   *)
(***************************************************************************)
EXTENDS Integers, Sequences, FiniteSets, TLC

VARIABLES
  params,             \* SearchParams_Cuda: immutable configuration of the run
  ndebug,             \* the build: TRUE when assert() is compiled out (NDEBUG)
  pc,                 \* position of the host in the decode loop
  logits,             \* the logits buffer handed to the pending SetLogits call
  stream,             \* params_.cuda_stream: operations enqueued, oldest first
  next_token_scores,  \* device ScoreMatrix, flat, batch_beam_size * vocab_size
  next_tokens,        \* device next-token buffer
  eos_meet,           \* device per-slot EOS mask
  done_cpu,           \* host-pinned done flag
  current_length,     \* sequences_.GetSequenceLength() (host counter)
  sequences,          \* device token buffer, max_length entries per slot
  oob,                \* a device write landed outside the sequences buffer
  beam_scores,        \* BeamScorer: cumulative score of every live beam
  beam_hyps,          \* BeamScorer: completed hypotheses collected per batch entry
  beam_done,          \* BeamScorer: DONE flag per batch entry
  next_indices,       \* BeamScorer: source slot of every live beam
  topk_buffer,        \* scratch of the top-k: the first stage's partial lists
  topk_next_scores,   \* candidate scores, 2 * num_beams per batch entry
  topk_next_tokens,   \* candidate tokens
  topk_next_indices   \* candidate source beams

beamVars == <<beam_scores, beam_hyps, beam_done, next_indices, topk_buffer,
              topk_next_scores, topk_next_tokens, topk_next_indices>>

vars == <<params, ndebug, pc, logits, stream, next_token_scores, next_tokens,
          eos_meet, done_cpu, current_length, sequences, oob, beamVars>>

----------------------------------------------------------------------------
(* Bounds of the model *)

GreedyBatch == 2       \* batch_size of the greedy runs
Vocab == 3             \* vocab_size
MaxLength == 3         \* max_length
MinLen == 2            \* min_length handed to the MinLength processor
MaxOverrun == 1        \* steps explored past max_length before the model stops
BeamBatch == 1         \* batch_size of the beam search runs
BeamMaxLength == 4     \* max_length of the beam search runs
TopKParts == 2         \* parts the top-k splits the vocabulary into

(* Program constants *)

Lowest == -100         \* std::numeric_limits<ScoreType>::lowest()
EosTokenId == 0        \* params_.eos_token_id
PadTokenId == 1        \* params_.pad_token_id
PromptToken == 2       \* the token id the prompt (params.input_ids) is filled with
Unwritten == -1        \* content of a sequences entry nothing was written to

----------------------------------------------------------------------------
(* Helpers *)

BatchBeamSize == params.batch_size * params.num_beams

Slots == 0 .. (BatchBeamSize - 1)

Tokens == 0 .. (params.vocab_size - 1)

Max(a, b) == IF a >= b THEN a ELSE b

RECURSIVE Pow2(_)
Pow2(n) == IF n <= 0 THEN 1 ELSE 2 * Pow2(n - 1)

RECURSIVE ILog2(_)
ILog2(n) == IF n <= 1 THEN 0 ELSE 1 + ILog2(n \div 2)

(* The row of slot i of a flat score matrix s, as a function of the token. *)
ScoreRow(s, i) == [v \in Tokens |-> s[i * params.vocab_size + v]]

----------------------------------------------------------------------------
(* Stream operations.  `step` is the sequence length of the decode step    *)
(* that enqueued the operation.                                            *)

Op(kind, a, b, data, step) ==
  [kind |-> kind, a |-> a, b |-> b, data |-> data, step |-> step]

MemcpyOp(off, data, step) == Op("Memcpy", off, Len(data), data, step)

LogSoftmaxOp(off, count, step) == Op("LogSoftmax", off, count, <<>>, step)

ArgMaxOp(batch, vocab, step) == Op("ArgMax", batch, vocab, <<>>, step)

CheckEOSOp(count, step) == Op("CheckEOS", count, 0, <<>>, step)

AppendOp(count, step) == Op("Append", count, step, <<>>, step)

----------------------------------------------------------------------------
(* Device kernels *)

(* cudaMemcpyAsync device to device: data lands at offset off. *)
MemcpyKernel(s, off, data) ==
  [k \in DOMAIN s |->
     IF k >= off /\ k < off + Len(data) THEN data[k - off + 1] ELSE s[k]]

RECURSIVE RowMax(_, _, _)
RowMax(s, off, count) ==
  IF count <= 1 THEN s[off]
  ELSE Max(s[off + count - 1], RowMax(s, off, count - 1))

(* 4 * 2^(x - m) rounded down: one term of the sum of exponentials, in      *)
(* fixed point with two fractional bits.                                   *)
ExpTerm(x, m) == IF x - m + 2 >= 0 THEN Pow2(x - m + 2) ELSE 0

RECURSIVE ExpSum(_, _, _, _)
ExpSum(s, off, count, m) ==
  IF count <= 0 THEN 0
  ELSE ExpTerm(s[off + count - 1], m) + ExpSum(s, off, count - 1, m)

(* log2 of the sum of 2^x over the row, rounded down (max-shifted, so      *)
(* numerically stable).                                                    *)
LogSumExp(s, off, count) ==
  LET m == RowMax(s, off, count)
  IN  m + ILog2(ExpSum(s, off, count, m)) - 2

(* Launch_log_softmax(values, count): in place x := x - logsumexp(row),    *)
(* saturating at the lowest representable score.                           *)
LogSoftmaxKernel(s, off, count) ==
  LET lse == LogSumExp(s, off, count)
  IN  [k \in DOMAIN s |->
         IF k >= off /\ k < off + count
         THEN (IF s[k] = Lowest THEN Lowest ELSE Max(Lowest, s[k] - lse))
         ELSE s[k]]

(* The arg-max reduction of one row: scan the tokens in increasing order   *)
(* and replace the best token only on a strictly greater score.            *)
RECURSIVE ArgMaxScan(_, _, _, _, _)
ArgMaxScan(s, base, token, vocab, best) ==
  IF token >= vocab THEN best
  ELSE ArgMaxScan(s, base, token + 1, vocab,
                  IF s[base + token] > s[base + best] THEN token ELSE best)

(* Launch_SoftMax(next_tokens, scores, batch_size, vocab_size): one token  *)
(* per batch entry, from the row at i * vocab_size.                        *)
ArgMaxKernel(nt, s, batch, vocab) ==
  [i \in DOMAIN nt |->
     IF i < batch THEN ArgMaxScan(s, i * vocab, 1, vocab, 0) ELSE nt[i]]

(* Launch_CheckForEOS: a slot that was already finished gets the pad token; *)
(* a slot whose token is EOS is marked; the done flag is raised once all   *)
(* slots are marked.                                                       *)
CheckEOSTokens(nt, em, count) ==
  [i \in DOMAIN nt |-> IF i < count /\ em[i] THEN params.pad_token_id ELSE nt[i]]

(* A mask that follows the slot's latest token instead of keeping its mark. *)
CheckEOSMask_NotSticky(nt, em, count) ==
  [i \in DOMAIN em |->
     IF i < count THEN nt[i] = params.eos_token_id ELSE em[i]]

CheckEOSMask(nt, em, count) ==
  [i \in DOMAIN em |->
     IF i < count THEN (em[i] \/ nt[i] = params.eos_token_id) ELSE em[i]]

CheckEOSDone(nt, em, count, done) ==
  IF \A i \in DOMAIN em : i < count => CheckEOSMask(nt, em, count)[i]
  THEN TRUE ELSE done

(* Launch_AppendNextTokenToSequences: writes each slot's next token at     *)
(* position len of that slot's sequence.                                   *)
AppendKernel(sq, nt, count, len) ==
  [i \in DOMAIN sq |->
     IF i < count /\ len < params.max_length
     THEN [sq[i] EXCEPT ![len] = nt[i]] ELSE sq[i]]

----------------------------------------------------------------------------
(* Beam search kernels *)

AddProbsOp(batch, beams, vocab, step) ==
  Op("AddProbs", 0, 0, <<batch, beams, vocab>>, step)

TopKStage1Op(batch, beams, vocab, k, step) ==
  Op("TopKStage1", 0, 0, <<batch, beams, vocab, k>>, step)

TopKStage2Op(batch, beams, vocab, k, step) ==
  Op("TopKStage2", 0, 0, <<batch, beams, vocab, k>>, step)

(* LaunchAddProbsKernel: adds each beam's cumulative score to every score  *)
(* of the beam's row.                                                      *)
AddProbsKernel(s, cum, batch, beams, vocab) ==
  [x \in DOMAIN s |->
     IF x < batch * beams * vocab
     THEN (IF s[x] = Lowest \/ cum[x \div vocab] = Lowest THEN Lowest
           ELSE Max(Lowest, s[x] + cum[x \div vocab]))
     ELSE s[x]]

(* A candidate of one batch entry: a score, its token and its source beam. *)
(* An empty place of a partial list holds NoCandidate.                     *)
NoCandidate == [score |-> Lowest, token |-> Unwritten, beam |-> Unwritten]

Candidate(s, b, j, v, beams, vocab) ==
  [score |-> s[(b * beams + j) * vocab + v], token |-> v, beam |-> j]

(* The selection order: the higher score first, equal scores by the lower  *)
(* place in the flattened (beam, token) space.                             *)
Better(c, d, vocab) ==
  \/ c.score > d.score
  \/ c.score = d.score /\ c.beam * vocab + c.token < d.beam * vocab + d.token

BestOf(S, vocab) == CHOOSE c \in S : \A d \in S \ {c} : Better(c, d, vocab)

(* The k best candidates of S, best first, padded with NoCandidate. *)
RECURSIVE TopKList(_, _, _)
TopKList(S, k, vocab) ==
  IF k <= 0 THEN <<>>
  ELSE IF S = {} THEN <<NoCandidate>> \o TopKList(S, k - 1, vocab)
  ELSE LET c == BestOf(S, vocab)
       IN  <<c>> \o TopKList(S \ {c}, k - 1, vocab)

ListCandidates(l) == {l[x] : x \in 1 .. Len(l)} \ {NoCandidate}

(* The vocabulary is split into TopKParts contiguous parts. *)
PartSize(vocab) == (vocab + TopKParts - 1) \div TopKParts

PartTokens(p, vocab) ==
  {v \in 0 .. (vocab - 1) : v \div PartSize(vocab) = p}

(* First stage: per (batch entry, beam, part) the k best of the part. *)
TopKStage1Kernel(s, batch, beams, vocab, k) ==
  [x \in (0 .. (batch - 1)) \X (0 .. (beams - 1)) \X (0 .. (TopKParts - 1)) |->
     TopKList({Candidate(s, x[1], x[2], v, beams, vocab) :
                 v \in PartTokens(x[3], vocab)}, k, vocab)]

(* Second stage: the parts of every beam are merged to the beam's k best,  *)
(* and the beams of a batch entry to the entry's k best.                   *)
BeamTopK(buf, b, j, k, vocab) ==
  TopKList(UNION {ListCandidates(buf[<<b, j, p>>]) : p \in 0 .. (TopKParts - 1)},
           k, vocab)

BatchTopK(buf, b, beams, k, vocab) ==
  TopKList(UNION {ListCandidates(BeamTopK(buf, b, j, k, vocab)) :
                    j \in 0 .. (beams - 1)}, k, vocab)

TopKStage2Kernel(buf, batch, beams, vocab, k) ==
  LET lists == [b \in 0 .. (batch - 1) |-> BatchTopK(buf, b, beams, k, vocab)]
  IN  [x \in 0 .. (batch * k - 1) |-> lists[x \div k][(x % k) + 1]]

----------------------------------------------------------------------------
(* The repetition penalty kernel *)

RepetitionPenaltyOp_NoHistory(penalty, step) ==
  Op("RepetitionPenalty", 0, 0,
     <<params.batch_size, params.num_beams, params.vocab_size,
       params.max_length, 0, penalty>>, step)

(* Processors_Cuda::RepetitionPenalty: one launch over the sequences and   *)
(* the whole score matrix, with the sequence length of the call.           *)
RepetitionPenaltyOp(penalty, step) ==
  Op("RepetitionPenalty", 0, 0,
     <<params.batch_size, params.num_beams, params.vocab_size,
       params.max_length, current_length, penalty>>, step)

(* The penalty on one score: a positive score is divided by the penalty,   *)
(* any other has the penalty subtracted.                                   *)
Penalise(x, penalty) == IF x > 0 THEN x \div penalty ELSE x - penalty

(* Token v occurs among the first len tokens of the sequence sq. *)
InHistory(sq, len, v) == \E q \in 0 .. (len - 1) : sq[q] = v

(* LaunchRepetitionPenaltyProcessor: per slot, the score of every token of *)
(* the slot's own sequence is penalised.                                   *)
RepetitionPenaltyKernel(s, sq, batch, beams, vocab, len, penalty) ==
  [x \in DOMAIN s |->
     IF x < batch * beams * vocab /\ InHistory(sq[x \div vocab], len, x % vocab)
     THEN Penalise(s[x], penalty) ELSE s[x]]

----------------------------------------------------------------------------
(* Search_Cuda::SetLogits *)

SetLogitsInputLength(lg) == Len(lg) \div (BatchBeamSize * params.vocab_size)

(* The two assertions of SetLogits: the size divides evenly, and            *)
(* input_length is 1.                                                      *)
SetLogitsAsserts(lg) ==
  /\ Len(lg) % (BatchBeamSize * params.vocab_size) = 0
  /\ SetLogitsInputLength(lg) = 1

(* The loop over the slots, from slot i on: current is the offset of the   *)
(* slot's last-position logits in lg.  Per slot one asynchronous copy into *)
(* the slot's row and one log-softmax launch on that row.                  *)
(* The loop with each row's log-softmax launched before the row's copy. *)
RECURSIVE SetLogitsLoop_SoftmaxFirst(_, _, _, _)
SetLogitsLoop_SoftmaxFirst(lg, i, current, step) ==
  IF i >= BatchBeamSize THEN <<>>
  ELSE <<LogSoftmaxOp(i * params.vocab_size, params.vocab_size, step),
         MemcpyOp(i * params.vocab_size,
                  SubSeq(lg, current + 1, current + params.vocab_size), step)>>
       \o SetLogitsLoop_SoftmaxFirst(lg, i + 1,
                        current + SetLogitsInputLength(lg) * params.vocab_size,
                        step)

RECURSIVE SetLogitsLoop(_, _, _, _)
SetLogitsLoop(lg, i, current, step) ==
  IF i >= BatchBeamSize THEN <<>>
  ELSE <<MemcpyOp(i * params.vocab_size,
                  SubSeq(lg, current + 1, current + params.vocab_size), step),
         LogSoftmaxOp(i * params.vocab_size, params.vocab_size, step)>>
       \o SetLogitsLoop(lg, i + 1,
                        current + SetLogitsInputLength(lg) * params.vocab_size,
                        step)

SetLogitsOps(lg, step) ==
  SetLogitsLoop(lg, 0, (SetLogitsInputLength(lg) - 1) * params.vocab_size, step)

(* The caller's next call: the greedy loop applies the MinLength processor *)
(* before it selects, the beam loop selects at once.                       *)
AfterSetLogits == IF params.search = "greedy" THEN "minlength" ELSE "select"

(* A failed assertion aborts the process in a build with assertions and    *)
(* is not evaluated in a build with NDEBUG.                                *)
SetLogits ==
  /\ pc = "setlogits"
  /\ IF SetLogitsAsserts(logits) \/ ndebug
     THEN /\ stream' = stream \o SetLogitsOps(logits, current_length)
          /\ pc' = AfterSetLogits
     ELSE /\ pc' = "aborted"
          /\ UNCHANGED stream
  /\ UNCHANGED <<params, ndebug, logits, next_token_scores, next_tokens,
                 eos_meet, done_cpu, current_length, sequences, oob, beamVars>>

----------------------------------------------------------------------------
(* Processors_Cuda::MinLength: a host-side store through GetScores(i) into *)
(* every slot's row, not an operation of the stream.                       *)

(* MinLength with the early return taken only above min_length. *)
MinLength_LengthOffByOne(s, len, m) ==
  IF len > m THEN s
  ELSE [k \in DOMAIN s |->
          IF \E i \in Slots : k = i * params.vocab_size + params.eos_token_id
          THEN Lowest ELSE s[k]]

MinLength(s, len, m) ==
  IF len >= m THEN s
  ELSE [k \in DOMAIN s |->
          IF \E i \in Slots : k = i * params.vocab_size + params.eos_token_id
          THEN Lowest ELSE s[k]]

ApplyMinLength ==
  /\ pc = "minlength"
  /\ next_token_scores' = MinLength(next_token_scores, current_length, MinLen)
  /\ pc' = "select"
  /\ UNCHANGED <<params, ndebug, logits, stream, next_tokens, eos_meet,
                 done_cpu, current_length, sequences, oob, beamVars>>

----------------------------------------------------------------------------
(* GreedySearch_Cuda *)

(* The launch with batch_size and vocab_size swapped. *)
GreedyNextTokensOp_SwappedSizes(step) ==
  ArgMaxOp(params.vocab_size, params.batch_size, step)

GreedyNextTokensOp(step) == ArgMaxOp(params.batch_size, params.vocab_size, step)

GreedyNextTokensFromLogits ==
  /\ pc = "select"
  /\ params.search = "greedy"
  /\ stream' = Append(stream, GreedyNextTokensOp(current_length))
  /\ pc' = "checkeos"
  /\ UNCHANGED <<params, ndebug, logits, next_token_scores, next_tokens,
                 eos_meet, done_cpu, current_length, sequences, oob, beamVars>>

(* The launch with a slot count of zero. *)
CheckForEOSOp_NoSlots(step) == CheckEOSOp(0, step)

CheckForEOSOp(step) == CheckEOSOp(Cardinality(DOMAIN next_tokens), step)

CheckForEOS ==
  /\ pc = "checkeos"
  /\ stream' = Append(stream, CheckForEOSOp(current_length))
  /\ pc' = "append"
  /\ UNCHANGED <<params, ndebug, logits, next_token_scores, next_tokens,
                 eos_meet, done_cpu, current_length, sequences, oob, beamVars>>

(* The done flag after the append: raised when the new length is exactly   *)
(* max_length.                                                             *)
GreedyDoneAfterAppend(len, done) == IF len = params.max_length THEN TRUE ELSE done

GreedyAppendNextTokensToSequences ==
  /\ pc = "append"
  /\ params.search = "greedy"
  /\ stream' = Append(stream, AppendOp(BatchBeamSize, current_length))
  /\ current_length' = current_length + 1
  /\ done_cpu' = GreedyDoneAfterAppend(current_length + 1, done_cpu)
  /\ pc' = "isdone"
  /\ UNCHANGED <<params, ndebug, logits, next_token_scores, next_tokens,
                 eos_meet, sequences, oob, beamVars>>

----------------------------------------------------------------------------
(* The logits the model hands to a step.  Row r < vocab_size favours token *)
(* r; row vocab_size is a tie between all tokens but token 0.              *)

LogitRow(r) ==
  [v \in 1 .. params.vocab_size |->
     IF r = params.vocab_size THEN (IF v = 1 THEN 0 ELSE 1)
     ELSE (IF v - 1 = r THEN 2 ELSE 0)]

LogitsOf(choice) ==
  [k \in 1 .. (BatchBeamSize * params.vocab_size) |->
     LogitRow(choice[(k - 1) \div params.vocab_size])[((k - 1) % params.vocab_size) + 1]]

(* The tensors a step may be given: slot 0 gets row r, and the other slots *)
(* either the same row (s = 0) or the following rows (s = 1).              *)
StepLogits ==
  {LogitsOf([i \in Slots |-> (r + i * s) % (params.vocab_size + 1)]) :
     r \in 0 .. params.vocab_size, s \in 0 .. 1}

(* The greedy decode loop: while (!IsDone()) { SetLogits; processors;      *)
(* NextTokensFromLogits; CheckForEOS; AppendNextTokensToSequences }.       *)
(* IsDone reads the pinned flag as it is.                                  *)
GreedyIsDone ==
  /\ pc = "isdone"
  /\ params.search = "greedy"
  /\ IF done_cpu
     THEN /\ pc' = "finished"
          /\ UNCHANGED logits
     ELSE /\ current_length < params.max_length + MaxOverrun
          /\ pc' = "setlogits"
          /\ logits' \in StepLogits
  /\ UNCHANGED <<params, ndebug, stream, next_token_scores, next_tokens,
                 eos_meet, done_cpu, current_length, sequences, oob, beamVars>>

----------------------------------------------------------------------------
(* The device: executes the oldest operation of the stream.                *)

TopKOutput(op) ==
  TopKStage2Kernel(topk_buffer, op.data[1], op.data[2], op.data[3], op.data[4])

DeviceExec ==
  /\ stream # <<>>
  /\ LET op == Head(stream)
         out == IF op.kind = "TopKStage2" THEN TopKOutput(op) ELSE <<>>
     IN
       /\ stream' = Tail(stream)
       /\ next_token_scores' =
            CASE op.kind = "Memcpy" ->
                   MemcpyKernel(next_token_scores, op.a, op.data)
              [] op.kind = "LogSoftmax" ->
                   LogSoftmaxKernel(next_token_scores, op.a, op.b)
              [] op.kind = "AddProbs" ->
                   AddProbsKernel(next_token_scores, beam_scores, op.data[1],
                                  op.data[2], op.data[3])
              [] op.kind = "RepetitionPenalty" ->
                   RepetitionPenaltyKernel(next_token_scores, sequences,
                                           op.data[1], op.data[2], op.data[3],
                                           op.data[5], op.data[6])
              [] OTHER -> next_token_scores
       /\ next_tokens' =
            CASE op.kind = "ArgMax" ->
                   ArgMaxKernel(next_tokens, next_token_scores, op.a, op.b)
              [] op.kind = "CheckEOS" ->
                   CheckEOSTokens(next_tokens, eos_meet, op.a)
              [] OTHER -> next_tokens
       /\ eos_meet' =
            IF op.kind = "CheckEOS"
            THEN CheckEOSMask(next_tokens, eos_meet, op.a) ELSE eos_meet
       /\ done_cpu' =
            IF op.kind = "CheckEOS"
            THEN CheckEOSDone(next_tokens, eos_meet, op.a, done_cpu) ELSE done_cpu
       /\ sequences' =
            IF op.kind = "Append"
            THEN AppendKernel(sequences, next_tokens, op.a, op.b) ELSE sequences
       /\ oob' = (oob \/ (op.kind = "Append" /\ op.b >= params.max_length))
       /\ topk_buffer' =
            IF op.kind = "TopKStage1"
            THEN TopKStage1Kernel(next_token_scores, op.data[1], op.data[2],
                                  op.data[3], op.data[4])
            ELSE topk_buffer
       /\ topk_next_scores' =
            IF op.kind = "TopKStage2"
            THEN [x \in DOMAIN out |-> out[x].score]
            ELSE topk_next_scores
       /\ topk_next_tokens' =
            IF op.kind = "TopKStage2"
            THEN [x \in DOMAIN out |-> out[x].token]
            ELSE topk_next_tokens
       /\ topk_next_indices' =
            IF op.kind = "TopKStage2"
            THEN [x \in DOMAIN out |-> out[x].beam]
            ELSE topk_next_indices
  /\ UNCHANGED <<params, ndebug, pc, logits, current_length, beam_scores,
                 beam_hyps, beam_done, next_indices>>

----------------------------------------------------------------------------
(* Greedy search: the state after GreedySearch_Cuda's constructor.  The    *)
(* memsets of the constructor are ordered on the stream before every       *)
(* kernel that reads what they clear, so they are taken as done; the done  *)
(* flag is allocated and not written, so it holds either value.            *)

GreedyParams ==
  [search |-> "greedy",
   batch_size |-> GreedyBatch, num_beams |-> 1, vocab_size |-> Vocab,
   max_length |-> MaxLength, eos_token_id |-> EosTokenId,
   pad_token_id |-> PadTokenId]

InitSearch(p, promptLen) ==
  /\ params = p
  /\ stream = <<>>
  /\ next_token_scores = [k \in 0 .. (p.batch_size * p.num_beams * p.vocab_size - 1) |-> 0]
  /\ eos_meet = [i \in 0 .. (p.batch_size * p.num_beams - 1) |-> FALSE]
  /\ done_cpu \in BOOLEAN
  /\ current_length = promptLen
  /\ sequences = [i \in 0 .. (p.batch_size * p.num_beams - 1) |->
                    [q \in 0 .. (p.max_length - 1) |->
                       IF q < promptLen THEN PromptToken ELSE Unwritten]]
  /\ oob = FALSE

Init ==
  /\ \E promptLen \in 1 .. MaxLength : InitSearch(GreedyParams, promptLen)
  /\ ndebug = FALSE
  /\ pc = "isdone"
  /\ logits = <<>>
  /\ next_tokens = [i \in 0 .. (GreedyBatch - 1) |-> 0]
  /\ beam_scores = <<>>
  /\ beam_hyps = <<>>
  /\ beam_done = <<>>
  /\ next_indices = <<>>
  /\ topk_buffer = <<>>
  /\ topk_next_scores = <<>>
  /\ topk_next_tokens = <<>>
  /\ topk_next_indices = <<>>

Next ==
  \/ GreedyIsDone
  \/ SetLogits
  \/ ApplyMinLength
  \/ GreedyNextTokensFromLogits
  \/ CheckForEOS
  \/ GreedyAppendNextTokensToSequences
  \/ DeviceExec

Spec == Init /\ [][Next]_vars

(* The greedy loop with progress: the host goes on with its next call and  *)
(* the device with the oldest operation of the stream.                     *)
SpecLive == Spec /\ WF_vars(Next)

----------------------------------------------------------------------------
(* BeamSearch_Cuda *)

MaxBeamsTopK == 32     \* the beam count up to which the top-k is launched

(* A candidate list of num_beams places per batch entry. *)
TopKCount_NumBeams == params.num_beams

TopKCount == 2 * params.num_beams

(* The enqueue with the top-k asked for num_beams candidates per batch     *)
(* entry in place of 2 * num_beams.                                        *)
BeamTopKOps_KIsNumBeams(step) ==
  <<AddProbsOp(params.batch_size, params.num_beams, params.vocab_size, step)>>
  \o (IF params.num_beams <= MaxBeamsTopK
      THEN <<TopKStage1Op(params.batch_size, params.num_beams,
                          params.vocab_size, params.num_beams, step),
             TopKStage2Op(params.batch_size, params.num_beams,
                          params.vocab_size, params.num_beams, step)>>
      ELSE <<>>)

(* What NextTokensFromLogits enqueues before it synchronises: the          *)
(* beam-score addition, and the two stages of the top-k when num_beams is  *)
(* within the supported bound.                                             *)
BeamTopKOps(step) ==
  <<AddProbsOp(params.batch_size, params.num_beams, params.vocab_size, step)>>
  \o (IF params.num_beams <= MaxBeamsTopK
      THEN <<TopKStage1Op(params.batch_size, params.num_beams,
                          params.vocab_size, 2 * params.num_beams, step),
             TopKStage2Op(params.batch_size, params.num_beams,
                          params.vocab_size, 2 * params.num_beams, step)>>
      ELSE <<>>)

(* NextTokensFromLogits up to its synchronisation.  The else branch is     *)
(* assert(false): it aborts a build with assertions and is empty under     *)
(* NDEBUG, where the function goes on.                                     *)
BeamNextTokensFromLogits ==
  /\ pc = "select"
  /\ params.search = "beam"
  /\ stream' = stream \o BeamTopKOps(current_length)
  /\ pc' = IF params.num_beams <= MaxBeamsTopK \/ ndebug
           THEN "sync" ELSE "aborted"
  /\ UNCHANGED <<params, ndebug, logits, next_token_scores, next_tokens,
                 eos_meet, done_cpu, current_length, sequences, oob, beamVars>>

(* A synchronisation that returns with work still pending. *)
StreamSynchronized_NoWait(st) == TRUE

(* cudaStreamSynchronize returns once the stream st has drained. *)
StreamSynchronized(st) == st = <<>>

BeamStreamSynchronize ==
  /\ pc = "sync"
  /\ StreamSynchronized(stream)
  /\ pc' = "process"
  /\ UNCHANGED <<params, ndebug, logits, stream, next_token_scores,
                 next_tokens, eos_meet, done_cpu, current_length, sequences,
                 oob, beamVars>>

(* BeamScorer.Process for batch entry b: the candidates are walked best    *)
(* first from place x; an EOS candidate goes to the completed pool, any    *)
(* other becomes a live beam, until num_beams live beams are chosen.       *)
CandidateAt(b, x) ==
  [score |-> topk_next_scores[b * TopKCount + x],
   token |-> topk_next_tokens[b * TopKCount + x],
   beam  |-> topk_next_indices[b * TopKCount + x]]

RECURSIVE ProcessWalk(_, _, _, _)
ProcessWalk(b, x, live, completed) ==
  IF x >= TopKCount \/ Len(live) = params.num_beams
  THEN [live |-> live, completed |-> completed]
  ELSE IF CandidateAt(b, x).token = params.eos_token_id
       THEN ProcessWalk(b, x + 1, live, completed + 1)
       ELSE ProcessWalk(b, x + 1, Append(live, CandidateAt(b, x)), completed)

ProcessBatch(b) == ProcessWalk(b, 0, <<>>, 0)

(* The candidate buffers hold what the top-k wrote (and not what the       *)
(* allocation held), and every batch entry yields num_beams live beams.    *)
CandidatesUsable ==
  /\ DOMAIN topk_next_tokens = 0 .. (params.batch_size * TopKCount - 1)
  /\ \A x \in DOMAIN topk_next_tokens : topk_next_tokens[x] # Unwritten
  /\ \A b \in 0 .. (params.batch_size - 1) :
       Len(ProcessBatch(b).live) = params.num_beams

LiveBeam(i) == ProcessBatch(i \div params.num_beams).live[(i % params.num_beams) + 1]

SourceSlot(i) == (i \div params.num_beams) * params.num_beams + LiveBeam(i).beam

BeamProcess ==
  /\ pc = "process"
  /\ IF CandidatesUsable
     THEN /\ beam_scores' =
               [i \in Slots |-> IF beam_done[i \div params.num_beams]
                                THEN beam_scores[i] ELSE LiveBeam(i).score]
          /\ next_tokens' =
               [i \in Slots |-> IF beam_done[i \div params.num_beams]
                                THEN params.pad_token_id ELSE LiveBeam(i).token]
          /\ next_indices' =
               [i \in Slots |-> IF beam_done[i \div params.num_beams]
                                THEN i ELSE SourceSlot(i)]
          /\ beam_hyps' =
               [b \in DOMAIN beam_hyps |->
                  IF beam_done[b] THEN beam_hyps[b]
                  ELSE beam_hyps[b] + ProcessBatch(b).completed]
          /\ sequences' =
               [i \in Slots |->
                  IF current_length < params.max_length
                  THEN [sequences[next_indices'[i]] EXCEPT
                          ![current_length] = next_tokens'[i]]
                  ELSE sequences[next_indices'[i]]]
          /\ pc' = "checkeos"
     ELSE /\ pc' = "undefined"
          /\ UNCHANGED <<beam_scores, next_tokens, next_indices, beam_hyps,
                         sequences>>
  /\ UNCHANGED <<params, ndebug, logits, stream, next_token_scores, eos_meet,
                 done_cpu, current_length, oob, beam_done, topk_buffer,
                 topk_next_scores, topk_next_tokens, topk_next_indices>>

(* sequences_.AfterDeviceAppendedNextToken(): the tokens are in place, the *)
(* length counts them.                                                     *)
BeamAppendNextTokensToSequences ==
  /\ pc = "append"
  /\ params.search = "beam"
  /\ current_length' = current_length + 1
  /\ pc' = "isdone"
  /\ UNCHANGED <<params, ndebug, logits, stream, next_token_scores,
                 next_tokens, eos_meet, done_cpu, sequences, oob, beamVars>>

(* beam_scorer_->IsDone(): a batch entry is DONE once num_beams completed  *)
(* hypotheses are collected or the length cap is hit, and stays DONE.      *)
BeamScorerIsDone(done, hyps, len) ==
  [b \in DOMAIN done |->
     done[b] \/ hyps[b] >= params.num_beams \/ len = params.max_length]

(* IsDone answering from the DONE states as they were before the update. *)
BeamIsDoneResult_BeforeUpdate(before, after, len) ==
  (\A b \in DOMAIN before : before[b]) \/ len = params.max_length

(* What IsDone returns: IsDoneLater() on the updated DONE states, or the   *)
(* length at max_length.                                                   *)
BeamIsDoneResult(before, after, len) ==
  (\A b \in DOMAIN after : after[b]) \/ len = params.max_length

(* BeamSearch_Cuda::IsDone and the decode loop around it. *)
BeamIsDone ==
  /\ pc = "isdone"
  /\ params.search = "beam"
  /\ beam_done' = BeamScorerIsDone(beam_done, beam_hyps, current_length)
  /\ IF BeamIsDoneResult(beam_done, beam_done', current_length)
     THEN /\ pc' = "finished"
          /\ UNCHANGED logits
     ELSE /\ pc' = "setlogits"
          /\ logits' \in StepLogits
  /\ UNCHANGED <<params, ndebug, stream, next_token_scores, next_tokens,
                 eos_meet, done_cpu, current_length, sequences, oob,
                 beam_scores, beam_hyps, next_indices, topk_buffer,
                 topk_next_scores, topk_next_tokens, topk_next_indices>>

----------------------------------------------------------------------------
(* Beam search: the state after BeamSearch_Cuda's constructor, for either  *)
(* build.  The constructor asserts num_beams > 1.  The candidate buffers   *)
(* are allocated and not written: Unwritten stands for what they hold.     *)
(* The scorer starts every batch entry with its first beam at score 0 and  *)
(* the others at the lowest score, no completed hypothesis, not DONE.      *)
(* The prompts leave from no step to three steps before max_length.        *)

BeamCounts == {1, 2, MaxBeamsTopK + 1}

BeamParams(beams) ==
  [search |-> "beam",
   batch_size |-> BeamBatch, num_beams |-> beams, vocab_size |-> Vocab,
   max_length |-> BeamMaxLength, eos_token_id |-> EosTokenId,
   pad_token_id |-> PadTokenId]

InitBeam ==
  /\ \E beams \in BeamCounts,
        promptLen \in Max(1, BeamMaxLength - 3) .. BeamMaxLength :
       /\ InitSearch(BeamParams(beams), promptLen)
       /\ ndebug \in BOOLEAN
       /\ pc = IF beams > 1 \/ ndebug THEN "isdone" ELSE "aborted"
       /\ next_tokens = [i \in 0 .. (BeamBatch * beams - 1) |-> 0]
       /\ beam_scores = [i \in 0 .. (BeamBatch * beams - 1) |->
                           IF i % beams = 0 THEN 0 ELSE Lowest]
       /\ next_indices = [i \in 0 .. (BeamBatch * beams - 1) |-> i]
       /\ topk_next_scores = [x \in 0 .. (2 * BeamBatch * beams - 1) |-> Unwritten]
       /\ topk_next_tokens = [x \in 0 .. (2 * BeamBatch * beams - 1) |-> Unwritten]
       /\ topk_next_indices = [x \in 0 .. (2 * BeamBatch * beams - 1) |-> Unwritten]
  /\ logits = <<>>
  /\ beam_hyps = [b \in 0 .. (BeamBatch - 1) |-> 0]
  /\ beam_done = [b \in 0 .. (BeamBatch - 1) |-> FALSE]
  /\ topk_buffer = <<>>

NextBeam ==
  \/ BeamIsDone
  \/ SetLogits
  \/ BeamNextTokensFromLogits
  \/ BeamStreamSynchronize
  \/ BeamProcess
  \/ CheckForEOS
  \/ BeamAppendNextTokensToSequences
  \/ DeviceExec

SpecBeam == InitBeam /\ [][NextBeam]_vars

----------------------------------------------------------------------------
(* One selection of a beam-search step, for the beam counts the top-k is   *)
(* specified for: the scores are the log-probabilities of some step, the   *)
(* beam scores the cumulative scores of some earlier steps.  A beam count  *)
(* of 1 passes the constructor in a build with NDEBUG only.                *)

TopKBeamCounts == {1, 2, 4, 8}

ScorePattern(n, m, c) == [x \in 0 .. (n - 1) |-> 0 - ((x * m + c) % 5)]

BeamScorePattern(n, c) == [i \in 0 .. (n - 1) |-> 0 - ((i * c) % 3)]

InitTopK ==
  /\ \E beams \in TopKBeamCounts, m \in 1 .. 4, c \in 0 .. 4 :
       /\ params = BeamParams(beams)
       /\ ndebug \in {d \in BOOLEAN : beams > 1 \/ d}
       /\ next_token_scores = ScorePattern(BeamBatch * beams * Vocab, m, c)
       /\ beam_scores = BeamScorePattern(BeamBatch * beams, c)
       /\ eos_meet = [i \in 0 .. (BeamBatch * beams - 1) |-> FALSE]
       /\ sequences = [i \in 0 .. (BeamBatch * beams - 1) |->
                         [q \in 0 .. (BeamMaxLength - 1) |->
                            IF q < 1 THEN PromptToken ELSE Unwritten]]
       /\ next_tokens = [i \in 0 .. (BeamBatch * beams - 1) |-> 0]
       /\ next_indices = [i \in 0 .. (BeamBatch * beams - 1) |-> i]
       /\ topk_next_scores = [x \in 0 .. (2 * BeamBatch * beams - 1) |-> Unwritten]
       /\ topk_next_tokens = [x \in 0 .. (2 * BeamBatch * beams - 1) |-> Unwritten]
       /\ topk_next_indices = [x \in 0 .. (2 * BeamBatch * beams - 1) |-> Unwritten]
  /\ pc = "select"
  /\ stream = <<>>
  /\ logits = <<>>
  /\ done_cpu \in BOOLEAN
  /\ current_length = 1
  /\ oob = FALSE
  /\ beam_hyps = [b \in 0 .. (BeamBatch - 1) |-> 0]
  /\ beam_done = [b \in 0 .. (BeamBatch - 1) |-> FALSE]
  /\ topk_buffer = <<>>

NextTopK ==
  \/ BeamNextTokensFromLogits
  \/ DeviceExec
  \/ BeamStreamSynchronize

SpecTopK == InitTopK /\ [][NextTopK]_vars

----------------------------------------------------------------------------
(* The top-k scratch buffer: its allocation in BeamSearch_Cuda's           *)
(* constructor and the four regions NextTokensFromLogits carves out of it, *)
(* in elements (a score and a token are of one size), for every batch size *)
(* up to MaxScratchBatch and every beam count the top-k is launched for.   *)

MaxScratchBatch == 4

max_parts_of_vocab == 128

(* The allocation with one part too few. *)
topk_buffer_size_NoSecondStage(p) ==
  (p.batch_size * p.num_beams) * max_parts_of_vocab * p.num_beams * 2 * 2

topk_buffer_size(p) ==
  (p.batch_size * p.num_beams) * (max_parts_of_vocab + 1) * p.num_beams * 2 * 2

candidate_count(p) == (p.batch_size * p.num_beams) * 2 * p.num_beams

(* Where each region starts, as the pointer arithmetic places it. *)
topk_scores_1st_stage(p) == 0

topk_tokens_1st_stage(p) ==
  topk_scores_1st_stage(p) + candidate_count(p) * max_parts_of_vocab

topk_scores_2nd_stage(p) ==
  topk_tokens_1st_stage(p) + candidate_count(p) * max_parts_of_vocab

topk_tokens_2nd_stage(p) == topk_scores_2nd_stage(p) + candidate_count(p)

(* The regions as [first, length]: a first-stage region holds              *)
(* candidate_count entries per part, a second-stage region candidate_count *)
(* entries.                                                                *)
ScratchRegions(p) ==
  <<[first |-> topk_scores_1st_stage(p),
     length |-> candidate_count(p) * max_parts_of_vocab],
    [first |-> topk_tokens_1st_stage(p),
     length |-> candidate_count(p) * max_parts_of_vocab],
    [first |-> topk_scores_2nd_stage(p), length |-> candidate_count(p)],
    [first |-> topk_tokens_2nd_stage(p), length |-> candidate_count(p)]>>

AllocateScratch ==
  /\ pc = "construct"
  /\ topk_buffer' = [size |-> topk_buffer_size(params), regions |-> <<>>]
  /\ pc' = "select"
  /\ UNCHANGED <<params, ndebug, logits, stream, next_token_scores,
                 next_tokens, eos_meet, done_cpu, current_length, sequences,
                 oob, beam_scores, beam_hyps, beam_done, next_indices,
                 topk_next_scores, topk_next_tokens, topk_next_indices>>

CarveScratch ==
  /\ pc = "select"
  /\ params.num_beams <= MaxBeamsTopK
  /\ topk_buffer' = [topk_buffer EXCEPT !.regions = ScratchRegions(params)]
  /\ pc' = "carved"
  /\ UNCHANGED <<params, ndebug, logits, stream, next_token_scores,
                 next_tokens, eos_meet, done_cpu, current_length, sequences,
                 oob, beam_scores, beam_hyps, beam_done, next_indices,
                 topk_next_scores, topk_next_tokens, topk_next_indices>>

InitScratch ==
  /\ \E batch \in 1 .. MaxScratchBatch, beams \in 2 .. MaxBeamsTopK :
       params = [search |-> "beam", batch_size |-> batch, num_beams |-> beams,
                 vocab_size |-> Vocab, max_length |-> BeamMaxLength,
                 eos_token_id |-> EosTokenId, pad_token_id |-> PadTokenId]
  /\ ndebug \in BOOLEAN
  /\ pc = "construct"
  /\ stream = <<>>
  /\ logits = <<>>
  /\ next_token_scores = <<>>
  /\ next_tokens = <<>>
  /\ eos_meet = <<>>
  /\ done_cpu \in BOOLEAN
  /\ current_length = 1
  /\ sequences = <<>>
  /\ oob = FALSE
  /\ beam_scores = <<>>
  /\ beam_hyps = <<>>
  /\ beam_done = <<>>
  /\ next_indices = <<>>
  /\ topk_buffer = <<>>
  /\ topk_next_scores = <<>>
  /\ topk_next_tokens = <<>>
  /\ topk_next_indices = <<>>

NextScratch ==
  \/ AllocateScratch
  \/ CarveScratch

SpecScratch == InitScratch /\ [][NextScratch]_vars

----------------------------------------------------------------------------
(* One RepetitionPenalty call in some step of a greedy search: the         *)
(* sequences hold any tokens up to the current length, the score matrix    *)
(* the log-probabilities of the step, the penalty is above 1.              *)

Penalties == {2, 3}

HistoryPattern(len, a, b) ==
  [i \in 0 .. (GreedyBatch - 1) |->
     [q \in 0 .. (MaxLength - 1) |->
        IF q < len THEN (i * a + q * b + PromptToken) % Vocab ELSE Unwritten]]

ApplyRepetitionPenalty ==
  /\ pc = "penalty"
  /\ \E penalty \in Penalties :
       stream' = Append(stream, RepetitionPenaltyOp(penalty, current_length))
  /\ pc' = "select"
  /\ UNCHANGED <<params, ndebug, logits, next_token_scores, next_tokens,
                 eos_meet, done_cpu, current_length, sequences, oob, beamVars>>

InitPenalty ==
  /\ params = GreedyParams
  /\ ndebug \in BOOLEAN
  /\ pc = "penalty"
  /\ stream = <<>>
  /\ logits = <<>>
  /\ \E m \in 1 .. 4, c \in 0 .. 4 :
       next_token_scores = ScorePattern(GreedyBatch * Vocab, m, c)
  /\ \E len \in 1 .. MaxLength, a \in 0 .. 2, b \in 0 .. 2 :
       /\ current_length = len
       /\ sequences = HistoryPattern(len, a, b)
  /\ eos_meet = [i \in 0 .. (GreedyBatch - 1) |-> FALSE]
  /\ done_cpu = FALSE
  /\ oob = FALSE
  /\ next_tokens = [i \in 0 .. (GreedyBatch - 1) |-> 0]
  /\ beam_scores = <<>>
  /\ beam_hyps = <<>>
  /\ beam_done = <<>>
  /\ next_indices = <<>>
  /\ topk_buffer = <<>>
  /\ topk_next_scores = <<>>
  /\ topk_next_tokens = <<>>
  /\ topk_next_indices = <<>>

NextPenalty ==
  \/ ApplyRepetitionPenalty
  \/ DeviceExec

SpecPenalty == InitPenalty /\ [][NextPenalty]_vars

----------------------------------------------------------------------------
(* One SetLogits call on a logits buffer of any size from one position per *)
(* slot up to MaxInputLength positions and a remainder, in either build.   *)

MaxInputLength == 2

LogitsBuffer(n, m) == [k \in 1 .. n |-> (k * m) % 7]

InitLogits ==
  /\ InitSearch(GreedyParams, 1)
  /\ ndebug \in BOOLEAN
  /\ pc = "setlogits"
  /\ \E n \in (GreedyBatch * Vocab) .. ((MaxInputLength + 1) * GreedyBatch * Vocab - 1),
        m \in 1 .. 3 :
       logits = LogitsBuffer(n, m)
  /\ next_tokens = [i \in 0 .. (GreedyBatch - 1) |-> 0]
  /\ beam_scores = <<>>
  /\ beam_hyps = <<>>
  /\ beam_done = <<>>
  /\ next_indices = <<>>
  /\ topk_buffer = <<>>
  /\ topk_next_scores = <<>>
  /\ topk_next_tokens = <<>>
  /\ topk_next_indices = <<>>

NextLogits ==
  \/ SetLogits
  \/ DeviceExec

SpecLogits == InitLogits /\ [][NextLogits]_vars

----------------------------------------------------------------------------
(* Properties of the greedy decode loop (Spec) *)

EosIndex(i) == i * params.vocab_size + params.eos_token_id

(* C1: every append makes the sequence length one greater, and in every    *)
(* reachable state of the decode loop, from any prompt length, the         *)
(* sequence length is at most max_length.                                  *)
C1_LengthPlusOneAndCapped ==
  /\ [][pc = "append" /\ pc' # pc => current_length' = current_length + 1]_vars
  /\ [](current_length <= params.max_length)

(* C5: MinLength with the sequence length below min_length leaves every    *)
(* slot's EOS score at the lowest representable score and every other      *)
(* score as it was; with the length at or above min_length it leaves the   *)
(* whole score matrix as it was.                                           *)
C5_MinLengthEffect ==
  [][pc = "minlength" /\ pc' # pc =>
       IF current_length < MinLen
       THEN /\ \A i \in Slots : next_token_scores'[EosIndex(i)] = Lowest
            /\ \A k \in DOMAIN next_token_scores :
                 (\A i \in Slots : k # EosIndex(i))
                   => next_token_scores'[k] = next_token_scores[k]
       ELSE next_token_scores' = next_token_scores]_vars

(* MinLength has returned in a step below min_length, with rows of this    *)
(* step already written by the device: EOS is masked, the rest is live.    *)
C5_Witness ==
  /\ pc = "select"
  /\ current_length < MinLen
  /\ \A i \in Slots : next_token_scores[EosIndex(i)] = Lowest
  /\ \E k \in DOMAIN next_token_scores : next_token_scores[k] \notin {0, Lowest}

(* C6: when the selection kernel of a step in which MinLength masked EOS   *)
(* runs, every slot's EOS score is the lowest representable score.         *)
C6_SelectionSeesMaskedEos ==
  (stream # <<>> /\ Head(stream).kind = "ArgMax" /\ Head(stream).step < MinLen)
    => \A i \in Slots : next_token_scores[EosIndex(i)] = Lowest

C8_DoneOnlyWhenFinished ==
  done_cpu => \/ \A i \in Slots : eos_meet[i]
              \/ current_length >= params.max_length

(* t is the arg-max of the row, the lowest token id among equal scores.    *)
IsArgMaxLowestId(row, t) ==
  /\ t \in DOMAIN row
  /\ \A v \in DOMAIN row : row[v] <= row[t] /\ (v < t => row[v] < row[t])

(* C9: the selection kernel writes for every batch slot the arg-max of the *)
(* slot's score row, the lowest token id among tied scores.                *)
C9_GreedyArgMax ==
  [][(stream # <<>> /\ Head(stream).kind = "ArgMax" /\ stream' = Tail(stream))
       => \A i \in 0 .. (params.batch_size - 1) :
            IsArgMaxLowestId(ScoreRow(next_token_scores, i), next_tokens'[i])]_vars

(* The selection has run on a row whose best score is shared by two        *)
(* tokens, and the lower token id was written.                             *)
C9_Witness ==
  /\ stream # <<>>
  /\ Head(stream).kind = "CheckEOS"
  /\ \E i \in 0 .. (params.batch_size - 1) :
       /\ IsArgMaxLowestId(ScoreRow(next_token_scores, i), next_tokens[i])
       /\ \E v \in Tokens :
            /\ v > next_tokens[i]
            /\ next_token_scores[i * params.vocab_size + v]
                 = next_token_scores[i * params.vocab_size + next_tokens[i]]

----------------------------------------------------------------------------
(* Properties of the beam-search step (SpecBeam, SpecTopK) *)

(* C2: with num_beams above the top-k bound the step never gets as far as  *)
(* BeamScorer.Process: the host is never at Process, nor past it, in a     *)
(* search whose top-k selection is not launched.                           *)
C2_NoProcessWithoutTopK ==
  params.num_beams > MaxBeamsTopK
    => pc \notin {"process", "checkeos", "append", "undefined"}

(* The k best of the scores s as the two stages compute them. *)
TwoStageTopK(s) ==
  TopKStage2Kernel(
    TopKStage1Kernel(s, params.batch_size, params.num_beams, params.vocab_size,
                     TopKCount),
    params.batch_size, params.num_beams, params.vocab_size, TopKCount)

(* C3: when the host is at BeamScorer.Process, nothing enqueued for the    *)
(* step is still pending on the stream, and the candidate buffers hold the *)
(* top-k of the step's scores with the beam scores added.                  *)
C3_ProcessAfterSynchronize ==
  pc = "process"
    => /\ stream = <<>>
       /\ params.num_beams <= MaxBeamsTopK
            => LET out == TwoStageTopK(next_token_scores)
               IN  /\ topk_next_scores = [x \in DOMAIN out |-> out[x].score]
                   /\ topk_next_tokens = [x \in DOMAIN out |-> out[x].token]
                   /\ topk_next_indices = [x \in DOMAIN out |-> out[x].beam]

(* The host is at Process in a second step of a search that launches the   *)
(* top-k, with the candidates of the step written.                         *)
C3_Witness ==
  /\ pc = "process"
  /\ params.num_beams = 2
  /\ current_length > 1
  /\ sequences[0][current_length - 1] # Unwritten
  /\ \A x \in DOMAIN topk_next_tokens : topk_next_tokens[x] # Unwritten
  /\ \E x \in DOMAIN topk_next_scores : topk_next_scores[x] \notin {0, Lowest}

----------------------------------------------------------------------------
(* Properties of SetLogits (SpecLogits) *)

(* C4: a SetLogits call on a buffer whose size is not exactly              *)
(* batch_beam_size * vocab_size ends aborted and enqueues nothing, so that *)
(* no row of the score matrix is written.                                  *)
C4_SetLogitsRejectsOtherSizes ==
  ~SetLogitsAsserts(logits)
    => /\ pc \in {"setlogits", "aborted"}
       /\ stream = <<>>
       /\ \A k \in DOMAIN next_token_scores : next_token_scores[k] = 0

----------------------------------------------------------------------------
(* Properties of the top-k selection (SpecTopK) *)

(* The flattened num_beams * vocab_size candidates of batch entry b. *)
NaiveCandidates(s, b) ==
  {Candidate(s, b, j, v, params.num_beams, params.vocab_size) :
     j \in 0 .. (params.num_beams - 1), v \in 0 .. (params.vocab_size - 1)}

TopKEntry(sc, tk, ix, x) == [score |-> sc[x], token |-> tk[x], beam |-> ix[x]]

(* The entries of batch entry b in the buffers sc, tk, ix are what sorting *)
(* the entry's candidates best first and taking the first k gives.         *)
IsSortAndTakeK(s, b, sc, tk, ix) ==
  LET k == TopKCount
      e(x) == TopKEntry(sc, tk, ix, b * k + x)
      all == NaiveCandidates(s, b)
  IN  /\ \A x \in 0 .. (k - 1) : e(x) \in all
      /\ \A x \in 0 .. (k - 2) : Better(e(x), e(x + 1), params.vocab_size)
      /\ \A c \in all :
           (\A x \in 0 .. (k - 1) : c # e(x))
             => Better(e(k - 1), c, params.vocab_size)

----------------------------------------------------------------------------
(* Properties of the beam scorer and of BeamSearch_Cuda::IsDone (SpecBeam) *)

(* The places of batch entry b's candidates that Process walks: those with *)
(* fewer than num_beams non-EOS candidates before them.                    *)
Walked(b) ==
  {x \in 0 .. (TopKCount - 1) :
     Cardinality({y \in 0 .. (x - 1) :
                    CandidateAt(b, y).token # params.eos_token_id})
       < params.num_beams}

(* Every live beam of batch entry b has its EOS candidate walked. *)
AllBeamsEmitEos(b) ==
  \A j \in 0 .. (params.num_beams - 1) :
    \E x \in Walked(b) : /\ CandidateAt(b, x).token = params.eos_token_id
                         /\ CandidateAt(b, x).beam = j

IsLivePlace(b, i, x) ==
  /\ x \in 0 .. (TopKCount - 1)
  /\ CandidateAt(b, x).token # params.eos_token_id
  /\ Cardinality({y \in 0 .. (x - 1) :
                    CandidateAt(b, y).token # params.eos_token_id}) = i

(* C12: Process on the 2 * num_beams candidates of a step leaves every     *)
(* batch entry that is not DONE with exactly num_beams live beams: the     *)
(* i-th live beam is the i-th candidate that is not EOS and extends the    *)
(* sequence of its source beam, the EOS candidates walked before the last  *)
(* live beam go to the completed pool, and at most num_beams candidates    *)
(* are EOS.                                                                *)
C12_ProcessKeepsNumBeamsLive ==
  [][(pc = "process" /\ pc' # pc /\ params.num_beams <= MaxBeamsTopK) =>
       /\ pc' = "checkeos"
       /\ \A b \in DOMAIN beam_done :
            ~beam_done[b] =>
              /\ Cardinality({x \in 0 .. (TopKCount - 1) :
                   CandidateAt(b, x).token = params.eos_token_id})
                   <= params.num_beams
              /\ \A i \in 0 .. (params.num_beams - 1) :
                   \E x \in 0 .. (TopKCount - 1) :
                     LET slot == b * params.num_beams + i
                         from == b * params.num_beams + CandidateAt(b, x).beam
                     IN  /\ IsLivePlace(b, i, x)
                         /\ next_tokens'[slot] = CandidateAt(b, x).token
                         /\ beam_scores'[slot] = CandidateAt(b, x).score
                         /\ next_indices'[slot] = from
                         /\ \A q \in 0 .. (current_length - 1) :
                              sequences'[slot][q] = sequences[from][q]
                         /\ sequences'[slot][current_length]
                              = CandidateAt(b, x).token
              /\ beam_hyps'[b] = beam_hyps[b] +
                   Cardinality({x \in Walked(b) :
                     CandidateAt(b, x).token = params.eos_token_id})]_vars

(* Process has run on two beams in a second step: an EOS candidate went to *)
(* the completed pool and both live beams extend the same source beam.     *)
C12_Witness ==
  /\ pc = "checkeos"
  /\ params.num_beams = 2
  /\ current_length > 1
  /\ sequences[0][current_length - 1] # PromptToken
  /\ beam_hyps[0] >= 1
  /\ ~beam_done[0]
  /\ next_indices[0] = next_indices[1]
  /\ \A i \in Slots : next_tokens[i] # params.eos_token_id

----------------------------------------------------------------------------
(* Properties of the EOS mask (Spec) *)

(* The device executes the EOS check in this step. *)
CheckEOSRuns ==
  stream # <<>> /\ Head(stream).kind = "CheckEOS" /\ stream' = Tail(stream)

(* C13: every slot's EOS mask starts false; an EOS check sets it for the   *)
(* slots whose next token is eos_token_id and leaves the others as they    *)
(* were; nothing else writes it; so a mark once set is never cleared.      *)
C13_EosMeetMonotone ==
  /\ \A i \in DOMAIN eos_meet : ~eos_meet[i]
  /\ [][IF CheckEOSRuns
        THEN \A i \in Slots :
               eos_meet'[i] <=> (eos_meet[i] \/ next_tokens[i] = params.eos_token_id)
        ELSE eos_meet' = eos_meet]_vars
  /\ [][\A i \in Slots : eos_meet[i] => eos_meet'[i]]_vars

(* A slot was marked in one step and has stayed marked through the EOS     *)
(* check of a later step, in which the selection gave it another token and *)
(* the other slot is not marked.                                           *)
C13_Witness ==
  /\ eos_meet[0]
  /\ ~eos_meet[1]
  /\ current_length >= 3
  /\ sequences[0][1] = params.eos_token_id
  /\ stream # <<>>
  /\ Head(stream).kind = "Append"
  /\ Head(stream).step = 2
  /\ next_tokens[0] = params.pad_token_id

(* The device executes the append in this step. *)
AppendRuns ==
  stream # <<>> /\ Head(stream).kind = "Append" /\ stream' = Tail(stream)

(* C14: the EOS check replaces the next token of every marked slot by      *)
(* pad_token_id, the append writes the tokens the check left, and so in    *)
(* every slot's sequence each token written after an EOS is pad_token_id.  *)
C14_PadAfterEos ==
  /\ [][CheckEOSRuns =>
          \A i \in Slots : eos_meet[i] => next_tokens'[i] = params.pad_token_id]_vars
  /\ [][(AppendRuns /\ Head(stream).step < params.max_length) =>
          \A i \in Slots : sequences'[i][Head(stream).step] = next_tokens[i]]_vars
  /\ [](\A i \in Slots : \A p, q \in 0 .. (params.max_length - 1) :
          (p < q /\ sequences[i][p] = params.eos_token_id
             /\ sequences[i][q] # Unwritten)
            => sequences[i][q] = params.pad_token_id)

(* A run has ended with slot 0 reading prompt, EOS, pad, where the logits  *)
(* of the last step favoured another token for the slot.                   *)
C14_Witness ==
  /\ pc = "finished"
  /\ stream = <<>>
  /\ sequences[0][0] = PromptToken
  /\ sequences[0][1] = params.eos_token_id
  /\ sequences[0][2] = params.pad_token_id
  /\ sequences[1][2] # params.pad_token_id
  /\ logits # <<>>
  /\ \E v \in 1 .. params.vocab_size : logits[v] > logits[PadTokenId + 1]

----------------------------------------------------------------------------
(* Properties of the score matrix after SetLogits (SpecBeam) *)

(* The log-softmax of the rows of the logits lg of one position per slot. *)
LogSoftmaxOfLogits(lg) ==
  LET raw == [k \in DOMAIN next_token_scores |-> lg[k + 1]]
  IN  [k \in DOMAIN next_token_scores |->
         LogSoftmaxKernel(raw, (k \div params.vocab_size) * params.vocab_size,
                          params.vocab_size)[k]]

(* The kernels that read the score matrix after SetLogits. *)
ReaderKinds == {"AddProbs", "TopKStage1", "TopKStage2", "ArgMax"}

(* C15: when the first kernel after SetLogits reads the score matrix,      *)
(* every row is the log-softmax of the slot's logits of this step,         *)
(* whatever the matrix held before; and on the stream no copy of a row     *)
(* follows the row's log-softmax, and no copy or log-softmax of a step     *)
(* follows a reading kernel of that step.                                  *)
C15_ScoresRecomputedEachStep ==
  /\ (stream # <<>> /\ Head(stream).kind = "AddProbs")
       => next_token_scores = LogSoftmaxOfLogits(logits)
  /\ \A k, l \in 1 .. Len(stream) :
       (k < l /\ stream[k].step = stream[l].step) =>
         /\ ~(stream[k].kind = "LogSoftmax" /\ stream[l].kind = "Memcpy"
                /\ stream[k].a = stream[l].a)
         /\ ~(stream[k].kind \in ReaderKinds
                /\ stream[l].kind \in {"Memcpy", "LogSoftmax"})

(* The rows of a later step of two beams are recomputed: the step before   *)
(* added beam scores to the matrix, this step's rows are ready for the     *)
(* addition and are not all the same.                                      *)
C15_Witness ==
  /\ stream # <<>>
  /\ Head(stream).kind = "AddProbs"
  /\ params.num_beams = 2
  /\ beam_scores[1] \notin {0, Lowest}
  /\ beam_scores[0] # 0
  /\ next_token_scores = LogSoftmaxOfLogits(logits)
  /\ \E v \in Tokens : next_token_scores[v] # next_token_scores[params.vocab_size + v]

----------------------------------------------------------------------------
(* Properties of the repetition penalty (SpecPenalty) *)

(* C16: the repetition penalty kernel, launched with a penalty above 1,    *)
(* leaves the score of every token of a slot's own sequence strictly below *)
(* what it was and every other score of the slot as it was.                *)
C16_RepetitionPenalty ==
  [][(stream # <<>> /\ Head(stream).kind = "RepetitionPenalty"
        /\ stream' = Tail(stream)) =>
       \A i \in Slots : \A v \in Tokens :
         LET x == i * params.vocab_size + v
         IN  IF InHistory(sequences[i], current_length, v)
             THEN next_token_scores'[x] < next_token_scores[x]
             ELSE next_token_scores'[x] = next_token_scores[x]]_vars

(* The penalty has run: a token of slot 1's sequence that slot 0's         *)
(* sequence lacks is penalised in slot 1 and has in slot 0 a score the     *)
(* log-softmax can leave.                                                  *)
C16_Witness ==
  /\ pc = "select"
  /\ stream = <<>>
  /\ params.search = "greedy"
  /\ DOMAIN sequences = 0 .. (GreedyBatch - 1)
  /\ \E v \in Tokens :
       /\ InHistory(sequences[1], current_length, v)
       /\ ~InHistory(sequences[0], current_length, v)
       /\ next_token_scores[params.vocab_size + v] < 0 - 4
       /\ next_token_scores[v] \in (0 - 4) .. 0

----------------------------------------------------------------------------
(* Properties of BeamSearch_Cuda's constructor (SpecBeam) *)

(* C17: a beam search constructed with num_beams <= 1 never runs a call of *)
(* a decode step.                                                          *)
C17_NoStepWithOneBeam ==
  params.num_beams <= 1
    => pc \notin {"setlogits", "select", "sync", "process", "checkeos",
                  "append", "undefined"}

----------------------------------------------------------------------------
(* Properties of the top-k scratch buffer (SpecScratch) *)

(* The elements of a region. *)
RegionEnd(r) == r.first + r.length

(* C18: the four regions carved out of the scratch buffer are pairwise     *)
(* disjoint and lie inside the buffer the constructor allocated.           *)
C18_ScratchRegionsDisjoint ==
  pc = "carved" =>
    LET rs == topk_buffer.regions
    IN  /\ Len(rs) = 4
        /\ \A i \in 1 .. 4 :
             /\ rs[i].length > 0
             /\ rs[i].first >= 0
             /\ RegionEnd(rs[i]) <= topk_buffer.size
        /\ \A i, j \in 1 .. 4 :
             i < j => \/ RegionEnd(rs[i]) <= rs[j].first
                      \/ RegionEnd(rs[j]) <= rs[i].first

(* The regions of the largest instance are carved, and the last one ends   *)
(* with the buffer.                                                        *)
C18_Witness ==
  /\ pc = "carved"
  /\ params.num_beams = MaxBeamsTopK
  /\ params.batch_size = MaxScratchBatch
  /\ RegionEnd(topk_buffer.regions[4]) = topk_buffer.size
  /\ topk_buffer.regions[2].first = RegionEnd(topk_buffer.regions[1])

----------------------------------------------------------------------------
(* Termination of the greedy decode loop (SpecLive) *)

(* C19: every greedy run ends with the done flag read true, and a step is  *)
(* started only while the sequence length is below max_length, so that no  *)
(* more than max_length - prompt_length steps are run.                     *)
C19_GreedyHalts ==
  /\ <>(pc = "finished" /\ done_cpu)
  /\ [](pc = "setlogits" => current_length < params.max_length)

====
